---- MODULE Spec2Model ----
(***************************************************************************)
(* A model of loc.py: the line classifier LocCounter.count and the file    *)
(* collector MultipleFileLocCounter.add.                                   *)
(*                                                                         *)
(* Text is modelled as sequences of one-character strings, so that strip,  *)
(* startswith, endswith and len are computed as Python computes them.      *)
(***************************************************************************)
EXTENDS Integers, Sequences, FiniteSets, TLC

\* ------------------------------------------------------------------ bounds

\* The longest list of lines handed to LocCounter.count.
MaxLines == 3

\* The most entries one add() call is given at top level.
MaxInputs == 2

\* The most add() calls made on one MultipleFileLocCounter.
MaxAdds == 2

\* The most entries of the file tree that are unreadable, and the most that
\* are listed in their directory but do not exist (dangling links).
MaxFaults == 1

\* The most add() and count() calls made on one MultipleFileLocCounter when
\* both are called.
MaxCalls == 3

\* ------------------------------------------------------------ text helpers

\* The whitespace characters str.strip() removes (those the inputs use).
Whitespace == {" ", "\t"}

RECURSIVE lstrip(_)
lstrip(s) ==
    IF s # <<>> /\ Head(s) \in Whitespace THEN lstrip(Tail(s)) ELSE s

RECURSIVE rstrip(_)
rstrip(s) ==
    IF s # <<>> /\ s[Len(s)] \in Whitespace
        THEN rstrip(SubSeq(s, 1, Len(s) - 1))
        ELSE s

\* str.strip()
strip(s) == rstrip(lstrip(s))

\* str.startswith(prefix)
startswith(s, prefix) ==
    /\ Len(prefix) <= Len(s)
    /\ SubSeq(s, 1, Len(prefix)) = prefix

\* str.endswith(suffix)
endswith(s, suffix) ==
    /\ Len(suffix) <= Len(s)
    /\ SubSeq(s, Len(s) - Len(suffix) + 1, Len(s)) = suffix

\* The two triple-quote delimiters, '"""' and "'''".
DQ == "\""
SQ == "'"
DQ3 == <<DQ, DQ, DQ>>
SQ3 == <<SQ, SQ, SQ>>

\* ------------------------------------------------------------- the inputs

\* The lines count() is given: every way a line can meet the tests of the
\* loop body (blank, comment, delimiters at either end, both kinds, short
\* and long lines, surrounding whitespace).
Lines ==
    { <<>>,
      <<" ">>,
      <<"\t", " ">>,
      <<"#", " ", "c">>,
      <<" ", "#">>,
      <<"#", DQ, DQ, DQ>>,
      <<"x">>,
      <<DQ, DQ>>,
      DQ3,
      SQ3,
      <<" ", DQ, DQ, DQ, " ">>,
      <<DQ, DQ, DQ, DQ>>,
      <<DQ, DQ, DQ, "a", DQ, DQ, DQ>>,
      <<SQ, SQ, SQ, "a", SQ, SQ, SQ>>,
      <<DQ, DQ, DQ, "a">>,
      <<SQ, SQ, SQ, "a">>,
      <<"a", DQ, DQ, DQ>>,
      <<"a", SQ, SQ, SQ>>,
      <<DQ, DQ, DQ, "a", SQ, SQ, SQ>> }

\* Every list of at most n lines.
LineSeqs(n) == UNION { [1..k -> Lines] : k \in 0..n }

\* ------------------------------------------------------------------ state

VARIABLES
    pc,               \* where LocCounter.count is: "new", "loop" or "done"
    flines,           \* count()'s argument
    idx,              \* how many lines the for loop has consumed
    nbr_loc,
    nbr_docstrings,
    nbr_comments,
    nbr_empty,
    docstring,        \* count()'s local: inside a multi-line docstring
    docstring_char    \* count()'s local: the quote character of the opener

countVars ==
    <<pc, flines, idx, nbr_loc, nbr_docstrings, nbr_comments, nbr_empty,
      docstring, docstring_char>>

VARIABLES
    unreadable,       \* file system: the entries os.access(.., R_OK) refuses
    missing,          \* file system: the listed entries that do not exist
    reversed,         \* file system: os.listdir's order is the reverse one
    self_recurse,     \* MultipleFileLocCounter.recurse
    found_files,      \* MultipleFileLocCounter.found_files
    apc,              \* where add() is: "idle" (not running) or "loop"
    recurse,          \* add()'s local, after the default is applied
    fname,            \* add()'s loop variable at top level, as supplied
    entries,          \* how many top-level entries this add() has consumed
    adds,             \* how many add() calls were made
    raised            \* the IOError the last add() ended with, "" for none

\* self.filenames is not kept: add() only iterates over it, and the loop
\* holds the list it started with when a recursive add() reassigns the field.
addVars ==
    <<unreadable, missing, reversed, self_recurse, found_files, apc,
      recurse, fname, entries, adds, raised>>

VARIABLES
    content,          \* file system: the lines of every source file
    counted,          \* MultipleFileLocCounter.counted
    total_loc,
    total_docstrings,
    total_comments,
    total_empty,
    failed,           \* the IOError the last count() ended with, "" for none
    calls,            \* how many add() and count() calls were made
    last,             \* the last operation: "new", "add", "count", "unlink"
    mpc,              \* where main() is: "start", "added" or "exited"
    options,          \* main()'s parsed options
    stdout            \* the lines main() has printed

multiVars ==
    <<content, counted, total_loc, total_docstrings, total_comments,
      total_empty, failed, calls, last, mpc, options, stdout>>

vars == <<countVars, addVars, multiVars>>

\* -------------------------------------------------- LocCounter.count body

\* The classifier's state as one value: the four counters and the two locals.
State(loc, doc, com, emp, inside, char) ==
    [nbr_loc |-> loc, nbr_docstrings |-> doc, nbr_comments |-> com,
     nbr_empty |-> emp, docstring |-> inside, docstring_char |-> char]

\* LocCounter.__init__ followed by the first two statements of count().
Fresh == State(0, 0, 0, 0, FALSE, "")

\* EmptyLine with the blank test placed after the docstring test: a blank
\* line inside a docstring is taken for docstring content.
EmptyLineAsDocstring(s) ==
    IF s.docstring
        THEN [s EXCEPT !.nbr_docstrings = @ + 1]
        ELSE [s EXCEPT !.nbr_empty = @ + 1]

\* "Empty line": nbr_empty += 1; continue
EmptyLine(s) == [s EXCEPT !.nbr_empty = @ + 1]

\* "Comment": nbr_comments += 1; continue
CommentLine(s) == [s EXCEPT !.nbr_comments = @ + 1]

\* IsSingleLineDocstring with "and" for the "or" between the two kinds.
IsSingleLineDocstringBothKinds(s, line) ==
    /\ ~s.docstring
    /\ Len(line) > 3
    /\ startswith(line, DQ3) /\ endswith(line, DQ3)
    /\ startswith(line, SQ3) /\ endswith(line, SQ3)

\* IsSingleLineDocstring with len(line) >= 3 for len(line) > 3.
IsSingleLineDocstringFromThree(s, line) ==
    /\ ~s.docstring
    /\ Len(line) >= 3
    /\ \/ startswith(line, DQ3) /\ endswith(line, DQ3)
       \/ startswith(line, SQ3) /\ endswith(line, SQ3)

\* The test of the "Single line docstring" rule.
IsSingleLineDocstring(s, line) ==
    /\ ~s.docstring
    /\ Len(line) > 3
    /\ \/ startswith(line, DQ3) /\ endswith(line, DQ3)
       \/ startswith(line, SQ3) /\ endswith(line, SQ3)

\* "Start of (multiline) docstring", entered when not inside a docstring;
\* a line that starts with neither delimiter falls through to "A line of
\* code!".
StartOfDocstring(s, line) ==
    IF startswith(line, DQ3)
        THEN [s EXCEPT !.docstring_char = DQ, !.docstring = TRUE,
                       !.nbr_docstrings = @ + 1]
    ELSE IF startswith(line, SQ3)
        THEN [s EXCEPT !.docstring_char = SQ, !.docstring = TRUE,
                       !.nbr_docstrings = @ + 1]
    ELSE [s EXCEPT !.nbr_loc = @ + 1]

\* SingleLineDocstring without its continue: the line goes on to the
\* "Start of (multiline) docstring" test.
SingleLineDocstringNoContinue(s, line) ==
    StartOfDocstring([s EXCEPT !.nbr_docstrings = @ + 1], line)

\* "Single line docstring": nbr_docstrings += 1; continue
SingleLineDocstring(s, line) == [s EXCEPT !.nbr_docstrings = @ + 1]

\* EndOfDocstring that also clears docstring_char when it closes.
EndOfDocstringClearsChar(s, line) ==
    IF \/ s.docstring_char = DQ /\ endswith(line, DQ3)
       \/ s.docstring_char = SQ /\ endswith(line, SQ3)
        THEN [s EXCEPT !.docstring = FALSE, !.docstring_char = "",
                       !.nbr_docstrings = @ + 1]
        ELSE s

\* EndOfDocstring that closes on either delimiter, whatever the opener.
EndOfDocstringAnyKind(s, line) ==
    IF endswith(line, DQ3) \/ endswith(line, SQ3)
        THEN [s EXCEPT !.docstring = FALSE, !.nbr_docstrings = @ + 1]
        ELSE s

\* "End of docstring", the else branch taken inside a docstring: only a
\* closing line is counted, and every line continues.
EndOfDocstring(s, line) ==
    IF \/ s.docstring_char = DQ /\ endswith(line, DQ3)
       \/ s.docstring_char = SQ /\ endswith(line, SQ3)
        THEN [s EXCEPT !.docstring = FALSE, !.nbr_docstrings = @ + 1]
        ELSE s

\* One iteration of the for loop over flines.
Step(s, raw) ==
    LET line == strip(raw) IN
    IF line = <<>> THEN EmptyLine(s)
    ELSE IF startswith(line, <<"#">>) THEN CommentLine(s)
    ELSE IF IsSingleLineDocstring(s, line) THEN SingleLineDocstring(s, line)
    ELSE IF ~s.docstring THEN StartOfDocstring(s, line)
    ELSE EndOfDocstring(s, line)

\* The classifier's state after the loop has consumed the lines ls, from s.
RECURSIVE Run(_, _)
Run(s, ls) ==
    IF ls = <<>> THEN s ELSE Run(Step(s, Head(ls)), Tail(ls))

\* The classifier's state held in the variables.
cur ==
    State(nbr_loc, nbr_docstrings, nbr_comments, nbr_empty,
          docstring, docstring_char)

\* ---------------------------------------------------------------- actions

\* A fresh LocCounter: the counters are 0 and count() has not been entered.
InitCount ==
    /\ pc = "new"
    /\ flines = <<>>
    /\ idx = 0
    /\ nbr_loc = 0
    /\ nbr_docstrings = 0
    /\ nbr_comments = 0
    /\ nbr_empty = 0
    /\ docstring = FALSE
    /\ docstring_char = ""

\* count(flines) is entered: the locals are set.
CountBegin ==
    /\ pc = "new"
    /\ \E ls \in LineSeqs(MaxLines) : flines' = ls
    /\ pc' = "loop"
    /\ docstring' = FALSE
    /\ docstring_char' = ""
    /\ UNCHANGED <<idx, nbr_loc, nbr_docstrings, nbr_comments, nbr_empty>>
    /\ UNCHANGED addVars
    /\ UNCHANGED multiVars

\* The loop body runs on the next line.
CountLine ==
    /\ pc = "loop"
    /\ idx < Len(flines)
    /\ LET s == Step(cur, flines[idx + 1]) IN
        /\ nbr_loc' = s.nbr_loc
        /\ nbr_docstrings' = s.nbr_docstrings
        /\ nbr_comments' = s.nbr_comments
        /\ nbr_empty' = s.nbr_empty
        /\ docstring' = s.docstring
        /\ docstring_char' = s.docstring_char
    /\ idx' = idx + 1
    /\ UNCHANGED <<pc, flines>>
    /\ UNCHANGED addVars
    /\ UNCHANGED multiVars

\* The loop is exhausted and count() returns.
CountEnd ==
    /\ pc = "loop"
    /\ idx = Len(flines)
    /\ pc' = "done"
    /\ UNCHANGED <<flines, idx, nbr_loc, nbr_docstrings, nbr_comments,
                   nbr_empty, docstring, docstring_char>>
    /\ UNCHANGED addVars
    /\ UNCHANGED multiVars

\* ------------------------------------------------------- the file system

\* The names of the entries of the file tree.
A_PY == <<"a", ".", "p", "y">>
B_TXT == <<"b", ".", "t", "x", "t">>
H_PY == <<".", "h", ".", "p", "y">>
C_PY == <<"c", ".", "p", "y">>
F_PY == <<"f", ".", "p", "y">>
N_PY == <<"n", ".", "p", "y">>
D == <<"d">>
E == <<"e">>

\* An entry is the list of names leading to it from the current directory,
\* which is <<>>. The tree:  a.py  b.txt  .h.py  d/c.py  d/e/f.py
Dirs == { <<>>, <<D>>, <<D, E>> }

\* The names a directory holds, in one of the orders os.listdir gives them.
Listing(dir) ==
    CASE dir = <<>> -> <<A_PY, B_TXT, D, H_PY>>
      [] dir = <<D>> -> <<C_PY, E>>
      [] dir = <<D, E>> -> <<F_PY>>
      [] OTHER -> <<>>

\* The entries of a directory, and every entry of the tree.
Children(dir) ==
    { Append(dir, Listing(dir)[i]) : i \in 1..Len(Listing(dir)) }
Nodes == Dirs \cup UNION { Children(dir) : dir \in Dirs }

\* The entries that may be unreadable, and those that may be dangling.
MayBeUnreadable == { <<A_PY>>, <<D>>, <<D, C_PY>>, <<D, E>> }
MayBeMissing == { <<D, C_PY>>, <<D, E>> }

\* The subsets of S with at most n elements.
UpTo(S, n) == { T \in SUBSET S : Cardinality(T) <= n }

Reverse(s) == [i \in 1..Len(s) |-> s[Len(s) + 1 - i]]

\* os.listdir(dir)
listdir(dir) == IF reversed THEN Reverse(Listing(dir)) ELSE Listing(dir)

\* str.split('/')
RECURSIVE Split(_)
Split(s) ==
    IF \A i \in 1..Len(s) : s[i] # "/"
        THEN <<s>>
        ELSE LET k == CHOOSE i \in 1..Len(s) :
                        s[i] = "/" /\ \A j \in 1..(i - 1) : s[j] # "/"
             IN  <<SubSeq(s, 1, k - 1)>> \o Split(SubSeq(s, k + 1, Len(s)))

\* The entry a relative path names: its components, without the empty ones
\* and the "." ones.
IsName(c) == c # <<>> /\ c # <<".">>
Components(path) == SelectSeq(Split(path), IsName)

\* os.path.exists(path), for a relative path without "..": the entry is in
\* the tree, nothing on the way to it is dangling, and only a directory
\* is named with a trailing slash.
exists(path) ==
    LET node == Components(path) IN
    /\ path # <<>>
    /\ Head(path) # "/"
    /\ node \in Nodes
    /\ \A k \in 1..Len(node) : SubSeq(node, 1, k) \notin missing
    /\ (path[Len(path)] = "/" => node \in Dirs)

\* os.access(path, os.R_OK), for a path that exists
access(path) == Components(path) \notin unreadable

\* os.path.isdir(path), for a path that exists
isdir(path) == Components(path) \in Dirs

\* glob.glob(dir + '*'), dir ending with one '/': every listed name that
\* does not start with a dot, dangling or not, joined to dir.
IsVisible(name) == Head(name) # "."
glob(dir) ==
    LET names == SelectSeq(listdir(Components(dir)), IsVisible)
    IN  [i \in 1..Len(names) |-> dir \o names[i]]

\* ------------------------------------------- MultipleFileLocCounter.add

\* The entries a caller supplies to add().
TopInputs ==
    { A_PY,
      <<".", "/">> \o A_PY,
      B_TXT,
      N_PY,
      D,
      D \o <<"/">>,
      <<".", "/">> \o D,
      <<".", "/">>,
      <<".">>,
      D \o <<"/">> \o C_PY,
      D \o <<"/">> \o E }

\* The two messages add() raises IOError with; "" is no error.
DoesNotExist == "does not exist"
IsInaccessible == "is inaccessible"

\* What one run of add()'s loop body or loop leaves: found_files and the
\* error it raised.
Ok(found) == [found |-> found, raised |-> ""]
Raise(found, error) == [found |-> found, raised |-> error]

\* StripDotSlash without the length test: './' becomes the empty path.
StripDotSlashAlways(name) ==
    IF startswith(name, <<".", "/">>)
        THEN SubSeq(name, 3, Len(name))
        ELSE name

\* if len(fname) != 2 and fname.startswith("./"): fname = fname[2:]
StripDotSlash(name) ==
    IF Len(name) # 2 /\ startswith(name, <<".", "/">>)
        THEN SubSeq(name, 3, Len(name))
        ELSE name

\* IsSourceFile testing for any extension, not for ".py".
HasExtension(f) == \E i \in 1..Len(f) : f[i] = "."

\* fname.endswith(".py")
IsSourceFile(f) == endswith(f, <<".", "p", "y">>)

\* NotYetFound comparing with the last path found only.
NotLastFound(found, f) == found = <<>> \/ found[Len(found)] # f

\* fname not in self.found_files
NotYetFound(found, f) == \A i \in 1..Len(found) : found[i] # f

\* Descend without "or first": a directory is expanded only with recurse.
DescendOnlyRecursing(rec, first) == rec

\* if recurse or first: the listed items are added
Descend(rec, first) == rec \/ first

RECURSIVE AddOne(_, _, _, _)
RECURSIVE AddAll(_, _, _, _)

\* AddOne with the two tests in the other order: os.access, which refuses a
\* path that does not exist, is asked before os.path.exists.
AddOneAccessFirst(found, name, rec, first) ==
    LET f == StripDotSlash(name) IN
    IF ~exists(f) \/ ~access(f)
        THEN IF first THEN Raise(found, IsInaccessible) ELSE Ok(found)
    ELSE IF isdir(f)
        THEN LET dir == IF endswith(f, <<"/">>) THEN f ELSE f \o <<"/">>
                 items == glob(dir)
             IN  IF items # <<>> /\ Descend(rec, first)
                     THEN AddAll(found, items, rec, FALSE)
                     ELSE Ok(found)
    ELSE IF IsSourceFile(f) /\ NotYetFound(found, f)
        THEN Ok(Append(found, f))
    ELSE Ok(found)

\* The body of add()'s loop for one entry, the recursive add() included.
AddOne(found, name, rec, first) ==
    LET f == StripDotSlash(name) IN
    IF ~exists(f)
        THEN IF first THEN Raise(found, DoesNotExist) ELSE Ok(found)
    ELSE IF ~access(f)
        THEN IF first THEN Raise(found, IsInaccessible) ELSE Ok(found)
    ELSE IF isdir(f)
        THEN LET dir == IF endswith(f, <<"/">>) THEN f ELSE f \o <<"/">>
                 items == glob(dir)
             IN  IF items # <<>> /\ Descend(rec, first)
                     THEN AddAll(found, items, rec, FALSE)
                     ELSE Ok(found)
    ELSE IF IsSourceFile(f) /\ NotYetFound(found, f)
        THEN Ok(Append(found, f))
    ELSE Ok(found)

\* add()'s loop over filenames; an IOError ends it.
AddAll(found, names, rec, first) ==
    IF names = <<>>
        THEN Ok(found)
        ELSE LET r == AddOne(found, Head(names), rec, first) IN
             IF r.raised # ""
                 THEN r
                 ELSE AddAll(r.found, Tail(names), rec, first)

\* MultipleFileLocCounter.__init__, and no add() running.
NewCollector ==
    /\ found_files = <<>>
    /\ apc = "idle"
    /\ recurse = FALSE
    /\ fname = <<>>
    /\ entries = 0
    /\ adds = 0
    /\ raised = ""

\* add(filenames, recurse) is called: recurse defaults to self.recurse.
AddBegin ==
    /\ apc = "idle"
    /\ adds < MaxAdds
    /\ \E arg \in {"None", "True", "False"} :
        recurse' = IF arg = "None" THEN self_recurse ELSE (arg = "True")
    /\ apc' = "loop"
    /\ entries' = 0
    /\ adds' = adds + 1
    /\ raised' = ""
    /\ UNCHANGED <<unreadable, missing, reversed, self_recurse, found_files,
                   fname>>
    /\ UNCHANGED countVars
    /\ UNCHANGED multiVars

\* The top-level loop takes the next supplied entry; an IOError leaves add().
AddEntry ==
    /\ apc = "loop"
    /\ entries < MaxInputs
    /\ \E name \in TopInputs :
        LET r == AddOne(found_files, name, recurse, TRUE) IN
        /\ fname' = name
        /\ found_files' = r.found
        /\ raised' = r.raised
        /\ apc' = IF r.raised # "" THEN "idle" ELSE "loop"
    /\ entries' = entries + 1
    /\ UNCHANGED <<unreadable, missing, reversed, self_recurse, recurse, adds>>
    /\ UNCHANGED countVars
    /\ UNCHANGED multiVars

\* The top-level loop is exhausted and add() returns.
AddReturn ==
    /\ apc = "loop"
    /\ apc' = "idle"
    /\ UNCHANGED <<unreadable, missing, reversed, self_recurse, found_files,
                   recurse, fname, entries, adds, raised>>
    /\ UNCHANGED countVars
    /\ UNCHANGED multiVars

\* ------------------------------------- MultipleFileLocCounter.count

\* The source files add() can find in the tree, and the texts they may hold
\* (as the lines file_lines() returns).
SourceFiles == { <<A_PY>>, <<D, C_PY>>, <<D, E, F_PY>> }

FileTexts ==
    { << <<"x">> >>,
      << <<DQ, DQ, DQ, "a", DQ, DQ, DQ>>, <<"x">>, <<>>,
         <<"#", " ", "c">>, <<"x">>, <<"x">>, <<"x">>, <<"x">> >> }

\* The lists of entries add() is called with when count() follows.
SomeInputs ==
    { <<>>,
      <<A_PY>>,
      <<B_TXT>>,
      <<N_PY>>,
      <<D>>,
      <<<<".">>>>,
      <<A_PY, <<".", "/">> \o A_PY>>,
      <<A_PY, D \o <<"/">> \o C_PY>> }

\* open(self.fname, 'r') raises IOError: the file is gone or unreadable.
OpenFails(path) == ~exists(path) \/ ~access(path)

\* LocCounter(fname) for a file that can be read: the record of its name
\* and its four counters after count(file_lines()).
LocCounter(path) ==
    LET s == Run(Fresh, content[Components(path)]) IN
    [fname |-> path, nbr_loc |-> s.nbr_loc,
     nbr_docstrings |-> s.nbr_docstrings, nbr_comments |-> s.nbr_comments,
     nbr_empty |-> s.nbr_empty]

\* The four totals as one value.
Totals(loc, doc, com, emp) ==
    [total_loc |-> loc, total_docstrings |-> doc, total_comments |-> com,
     total_empty |-> emp]

\* "Count in files": a LocCounter is appended for every found file, until
\* one cannot be read.
RECURSIVE CountInFiles(_, _)
CountInFiles(recs, names) ==
    IF names = <<>> THEN [counted |-> recs, raised |-> ""]
    ELSE IF OpenFails(Head(names))
        THEN [counted |-> recs, raised |-> "IOError"]
    ELSE CountInFiles(Append(recs, LocCounter(Head(names))), Tail(names))

\* "Count totals": every record of counted is added to the totals.
RECURSIVE CountTotals(_, _)
CountTotals(tot, recs) ==
    IF recs = <<>> THEN tot
    ELSE CountTotals(
            Totals(tot.total_loc + Head(recs).nbr_loc,
                   tot.total_docstrings + Head(recs).nbr_docstrings,
                   tot.total_comments + Head(recs).nbr_comments,
                   tot.total_empty + Head(recs).nbr_empty),
            Tail(recs))

\* count() with one loop for its two: the totals grow as each file is read.
RECURSIVE MultiCountOneLoop(_, _, _)
MultiCountOneLoop(recs, names, tot) ==
    IF names = <<>> THEN [counted |-> recs, totals |-> tot, raised |-> ""]
    ELSE IF OpenFails(Head(names))
        THEN [counted |-> recs, totals |-> tot, raised |-> "IOError"]
    ELSE MultiCountOneLoop(Append(recs, LocCounter(Head(names))),
                           Tail(names),
                           CountTotals(tot, <<LocCounter(Head(names))>>))

\* MultipleFileLocCounter.count(): what it leaves in counted and in the
\* totals, and the IOError it raised.
MultiCount(recs, names, tot) ==
    LET r == CountInFiles(recs, names) IN
    IF r.raised # ""
        THEN [counted |-> r.counted, totals |-> tot, raised |-> r.raised]
        ELSE [counted |-> r.counted, totals |-> CountTotals(tot, r.counted),
              raised |-> ""]

\* The totals held in the variables.
curTotals ==
    Totals(total_loc, total_docstrings, total_comments, total_empty)

\* MultipleFileLocCounter.__init__: nothing counted; main() not started.
NewAggregate ==
    /\ counted = <<>>
    /\ total_loc = 0
    /\ total_docstrings = 0
    /\ total_comments = 0
    /\ total_empty = 0
    /\ failed = ""
    /\ calls = 0
    /\ last = "new"
    /\ mpc = "start"
    /\ options = [recurse |-> FALSE, verbose |-> FALSE, files |-> FALSE]
    /\ stdout = <<>>

\* One add(filenames, recurse) call, from its first statement to its return
\* or its IOError.
MultiAdd ==
    /\ calls < MaxCalls
    /\ \E names \in SomeInputs, arg \in {"None", "True", "False"} :
        LET rec == IF arg = "None" THEN self_recurse ELSE (arg = "True")
            r == AddAll(found_files, names, rec, TRUE)
        IN  /\ recurse' = rec
            /\ found_files' = r.found
            /\ raised' = r.raised
    /\ adds' = adds + 1
    /\ calls' = calls + 1
    /\ last' = "add"
    /\ UNCHANGED <<unreadable, missing, reversed, self_recurse, apc, fname,
                   entries>>
    /\ UNCHANGED <<content, counted, total_loc, total_docstrings,
                   total_comments, total_empty, failed, mpc, options, stdout>>
    /\ UNCHANGED countVars

\* One count() call.
MultiCountCall ==
    /\ calls < MaxCalls
    /\ LET r == MultiCount(counted, found_files, curTotals) IN
        /\ counted' = r.counted
        /\ total_loc' = r.totals.total_loc
        /\ total_docstrings' = r.totals.total_docstrings
        /\ total_comments' = r.totals.total_comments
        /\ total_empty' = r.totals.total_empty
        /\ failed' = r.raised
    /\ calls' = calls + 1
    /\ last' = "count"
    /\ UNCHANGED <<content, mpc, options, stdout>>
    /\ UNCHANGED addVars
    /\ UNCHANGED countVars

\* The environment removes a source file (between two calls).
Unlink ==
    /\ Cardinality(missing) < MaxFaults
    /\ \E node \in SourceFiles \ missing : missing' = missing \cup {node}
    /\ last' = "unlink"
    /\ UNCHANGED <<unreadable, reversed, self_recurse, found_files, apc,
                   recurse, fname, entries, adds, raised>>
    /\ UNCHANGED <<content, counted, total_loc, total_docstrings,
                   total_comments, total_empty, failed, calls, mpc, options,
                   stdout>>
    /\ UNCHANGED countVars

\* --------------------------------------------------------------- main

\* COL_WIDTH
COL_WIDTH == 8

\* str(n) of an integer n >= 0: its decimal digits.
DigitChars == <<"0", "1", "2", "3", "4", "5", "6", "7", "8", "9">>

RECURSIVE str(_)
str(n) ==
    IF n < 10
        THEN <<DigitChars[n + 1]>>
        ELSE str(n \div 10) \o <<DigitChars[(n % 10) + 1]>>

\* s.rjust(width): s with spaces before it up to width characters.
rjust(s, width) ==
    IF Len(s) >= width
        THEN s
        ELSE [i \in 1..(width - Len(s)) |-> " "] \o s

\* LocCounter.__str__
LocCounterStr(rec) ==
    rjust(str(rec.nbr_loc), COL_WIDTH) \o <<" ", " ">> \o rec.fname

\* LocCounter.verbose
LocCounterVerbose(rec) ==
    rjust(str(rec.nbr_loc), COL_WIDTH)
        \o rjust(str(rec.nbr_docstrings), COL_WIDTH)
        \o rjust(str(rec.nbr_comments), COL_WIDTH)
        \o rjust(str(rec.nbr_empty), COL_WIDTH)
        \o <<" ", " ">> \o rec.fname

\* MultipleFileLocCounter.__str__
MultiStr(tot) == str(tot.total_loc)

\* MultipleFileLocCounter.verbose
MultiVerbose(tot) ==
    rjust(str(tot.total_loc), COL_WIDTH)
        \o rjust(str(tot.total_docstrings), COL_WIDTH)
        \o rjust(str(tot.total_comments), COL_WIDTH)
        \o rjust(str(tot.total_empty), COL_WIDTH)
        \o <<" ", " ">>

\* The header main() prints with -v, with FILENAME under -f.
Header(files) ==
    rjust(<<"L", "O", "C">>, COL_WIDTH)
        \o rjust(<<"D", "O", "C", "S", "T", "R">>, COL_WIDTH)
        \o rjust(<<"C", "M", "M", "N", "T", "S">>, COL_WIDTH)
        \o rjust(<<"E", "M", "P", "T", "Y">>, COL_WIDTH)
        \o <<" ", " ">>
        \o (IF files
               THEN rjust(<<"F", "I", "L", "E", "N", "A", "M", "E">>,
                          COL_WIDTH)
               ELSE <<>>)

\* Output without the test "if mfloc.counted": the total is printed also
\* when nothing was counted.
OutputWithoutGuard(opts, recs, tot) ==
    IF opts.verbose
        THEN <<Header(opts.files)>>
                \o (IF opts.files
                       THEN [i \in 1..Len(recs) |-> LocCounterVerbose(recs[i])]
                       ELSE <<>>)
                \o <<MultiVerbose(tot)>>
    ELSE IF opts.files
        THEN [i \in 1..Len(recs) |-> LocCounterStr(recs[i])]
                \o <<MultiStr(tot)>>
    ELSE <<MultiStr(tot)>>

\* "View file counters": the lines main() prints, one per print statement.
Output(opts, recs, tot) ==
    IF recs = <<>> THEN <<>>
    ELSE IF opts.verbose
        THEN <<Header(opts.files)>>
                \o (IF opts.files
                       THEN [i \in 1..Len(recs) |-> LocCounterVerbose(recs[i])]
                       ELSE <<>>)
                \o <<MultiVerbose(tot)>>
    ELSE IF opts.files
        THEN [i \in 1..Len(recs) |-> LocCounterStr(recs[i])]
                \o <<MultiStr(tot)>>
    ELSE <<MultiStr(tot)>>

\* The options parse_command_line() can return; an option that is not
\* given is None, which every test of main() and add() takes for false.
Options == [recurse : BOOLEAN, verbose : BOOLEAN, files : BOOLEAN]

\* main() up to the return of mfloc.add(filenames); an IOError ends main().
MainAdd ==
    /\ mpc = "start"
    /\ \E opts \in Options, names \in SomeInputs :
        LET r == AddAll(found_files, names, opts.recurse, TRUE) IN
        /\ options' = opts
        /\ self_recurse' = opts.recurse
        /\ recurse' = opts.recurse
        /\ found_files' = r.found
        /\ raised' = r.raised
        /\ mpc' = IF r.raised # "" THEN "exited" ELSE "added"
    /\ adds' = adds + 1
    /\ calls' = calls + 1
    /\ last' = "add"
    /\ UNCHANGED <<unreadable, missing, reversed, apc, fname, entries>>
    /\ UNCHANGED <<content, counted, total_loc, total_docstrings,
                   total_comments, total_empty, failed, stdout>>
    /\ UNCHANGED countVars

\* main() from mfloc.count() to its end; an IOError ends it with nothing
\* printed.
MainCountAndView ==
    /\ mpc = "added"
    /\ LET r == MultiCount(counted, found_files, curTotals) IN
        /\ counted' = r.counted
        /\ total_loc' = r.totals.total_loc
        /\ total_docstrings' = r.totals.total_docstrings
        /\ total_comments' = r.totals.total_comments
        /\ total_empty' = r.totals.total_empty
        /\ failed' = r.raised
        /\ stdout' = IF r.raised # ""
                        THEN stdout
                        ELSE stdout \o Output(options, r.counted, r.totals)
    /\ mpc' = "exited"
    /\ calls' = calls + 1
    /\ last' = "count"
    /\ UNCHANGED <<content, options>>
    /\ UNCHANGED addVars
    /\ UNCHANGED countVars

\* --------------------------------------------------------- specifications

\* A file system without faults, for the runs that read no file.
PlainFileSystem ==
    /\ unreadable = {}
    /\ missing = {}
    /\ reversed = FALSE

\* Any file system of the tree, with at most MaxFaults faults of each kind.
AnyFileSystem ==
    /\ unreadable \in UpTo(MayBeUnreadable, MaxFaults)
    /\ missing \in UpTo(MayBeMissing, MaxFaults)
    /\ reversed \in BOOLEAN

\* Source files that all hold one line of code, for the runs that read none.
PlainContent == content = [node \in SourceFiles |-> << <<"x">> >>]

\* Any texts in the source files.
AnyContent == content \in [SourceFiles -> FileTexts]

\* LocCounter.count on a fresh LocCounter.
SpecCountInit ==
    /\ InitCount
    /\ PlainFileSystem
    /\ PlainContent
    /\ self_recurse = FALSE
    /\ NewCollector
    /\ NewAggregate

SpecCountNext == CountBegin \/ CountLine \/ CountEnd

SpecCount == SpecCountInit /\ [][SpecCountNext]_vars

\* add() calls on a new MultipleFileLocCounter.
SpecAddInit ==
    /\ InitCount
    /\ AnyFileSystem
    /\ PlainContent
    /\ self_recurse \in BOOLEAN
    /\ NewCollector
    /\ NewAggregate

SpecAddNext == AddBegin \/ AddEntry \/ AddReturn

SpecAdd == SpecAddInit /\ [][SpecAddNext]_vars

\* add() and count() calls on a new MultipleFileLocCounter, while source
\* files may be removed.
SpecMultiInit ==
    /\ InitCount
    /\ PlainFileSystem
    /\ AnyContent
    /\ self_recurse \in BOOLEAN
    /\ NewCollector
    /\ NewAggregate

SpecMultiNext == MultiAdd \/ MultiCountCall \/ Unlink

SpecMulti == SpecMultiInit /\ [][SpecMultiNext]_vars

\* One run of main(), while source files may be removed.
SpecMainInit ==
    /\ InitCount
    /\ AnyFileSystem
    /\ AnyContent
    /\ self_recurse = FALSE
    /\ NewCollector
    /\ NewAggregate

SpecMainNext == MainAdd \/ MainCountAndView \/ Unlink

SpecMain == SpecMainInit /\ [][SpecMainNext]_vars

\* ------------------------------------------------- claims on the classifier

\* The sum of the four counters.
Total == nbr_loc + nbr_docstrings + nbr_comments + nbr_empty

\* The loop body has just run on line flines[idx'] (an action predicate).
Consumed == pc = "loop" /\ idx' = idx + 1

\* The line starts and ends with the same triple-quote delimiter.
SameDelimiterBothEnds(l) ==
    \/ startswith(l, DQ3) /\ endswith(l, DQ3)
    \/ startswith(l, SQ3) /\ endswith(l, SQ3)

\* The triple-quote delimiter of a quote character.
Delimiter(char) == <<char, char, char>>

\* C1: after every processed prefix of the lines, the four counters sum to
\* the number of lines consumed so far.
C1_CountersSumToConsumed == Total = idx

\* C2: inside a multi-line docstring every non-blank line adds exactly one
\* to the docstring counter, whether or not it closes the docstring; an
\* opener, one body line and a closing line give docstring = 3.
C2_EveryDocstringLineCounts ==
    /\ [][(Consumed /\ docstring /\ strip(flines[idx']) # <<>>)
            => nbr_docstrings' = nbr_docstrings + 1]_vars
    /\ []((pc = "done" /\ flines = <<DQ3, <<"x">>, DQ3>>)
            => nbr_docstrings = 3)

\* C3: a non-blank line whose trimmed text starts with '#' is counted as a
\* comment only outside a docstring; inside a docstring it adds one to the
\* docstring counter and leaves the comment counter unchanged.
C3_CommentOnlyOutsideDocstring ==
    [][(Consumed /\ startswith(strip(flines[idx']), <<"#">>))
        => IF docstring
              THEN /\ nbr_docstrings' = nbr_docstrings + 1
                   /\ nbr_comments' = nbr_comments
              ELSE nbr_comments' = nbr_comments + 1]_vars

\* C4: in every classifier state a line that is empty after trimming adds
\* one to the blank counter and leaves the other three counters and the
\* docstring state unchanged.
C4_BlankLineFrame ==
    [][(Consumed /\ strip(flines[idx']) = <<>>)
        => /\ nbr_empty' = nbr_empty + 1
           /\ UNCHANGED <<nbr_loc, nbr_docstrings, nbr_comments,
                          docstring, docstring_char>>]_vars

\* C4's case: a whitespace-only line was consumed inside a docstring.
C4_Witness ==
    /\ idx > 0
    /\ flines[idx] # <<>>
    /\ strip(flines[idx]) = <<>>
    /\ docstring
    /\ docstring_char = SQ
    /\ nbr_empty >= 1

\* C5: outside a docstring, a trimmed line longer than 3 characters that
\* starts and ends with the same triple-quote delimiter adds one to the
\* docstring counter and leaves the classifier outside a docstring (the
\* opener rule does not see it), so the next line is at statement level.
C5_SingleLineDocstring ==
    [][(Consumed /\ ~docstring
            /\ Len(strip(flines[idx'])) > 3
            /\ SameDelimiterBothEnds(strip(flines[idx'])))
        => /\ nbr_docstrings' = nbr_docstrings + 1
           /\ docstring' = FALSE
           /\ UNCHANGED <<nbr_loc, nbr_comments, nbr_empty>>]_vars

\* C5's case: a single-line docstring, then a line counted as code.
C5_Witness ==
    /\ idx = 2
    /\ flines[1] = <<SQ, SQ, SQ, "a", SQ, SQ, SQ>>
    /\ flines[2] = <<"x">>
    /\ nbr_docstrings = 1
    /\ nbr_loc = 1
    /\ ~docstring

\* C6: if a multi-line docstring is opened and no later line ends with the
\* matching delimiter, every non-blank line from the opener to the end of
\* the input is counted as docstring and neither the code nor the comment
\* counter grows after the opener.
C6_UnterminatedDocstring ==
    pc = "done" =>
        \A k \in 1..Len(flines) :
            LET before == Run(Fresh, SubSeq(flines, 1, k - 1))
                after == Step(before, flines[k])
                rest == (k + 1)..Len(flines)
            IN  (/\ ~before.docstring
                 /\ after.docstring
                 /\ \A j \in rest :
                      ~endswith(strip(flines[j]),
                                Delimiter(after.docstring_char)))
                => /\ nbr_docstrings - before.nbr_docstrings
                        = Cardinality({j \in k..Len(flines) :
                                          strip(flines[j]) # <<>>})
                   /\ nbr_loc = after.nbr_loc
                   /\ nbr_comments = after.nbr_comments

\* C7: processing one line raises the total of the four counters by at
\* most one.
C7_NoDoubleCount == [][Consumed => Total' <= Total + 1]_vars

\* C7's case: three lines consumed, each counted once.
C7_Witness == idx = 3 /\ Total = 3 /\ nbr_docstrings >= 1

\* -------------------------------------------------- claims on the collector

\* The top-level loop of add() has just consumed the entry fname'.
Supplied == apc = "loop" /\ entries' = entries + 1

\* The entries the paths of a list name.
NodesOf(found) == { Components(found[i]) : i \in 1..Len(found) }

\* The last name of an entry ends with ".py".
NamedPy(node) ==
    node # <<>> /\ endswith(node[Len(node)], <<".", "p", "y">>)

\* The entries strictly below dir down to node, node included.
Between(dir, node) ==
    { SubSeq(node, 1, k) : k \in (Len(dir) + 1)..Len(node) }

\* node lies below dir: directly, or at any depth when deep.
Below(dir, node, deep) ==
    /\ Len(node) > Len(dir)
    /\ SubSeq(node, 1, Len(dir)) = dir
    /\ deep \/ Len(node) = Len(dir) + 1

\* The '.py' files below dir that exist.
PyFilesBelow(dir, deep) ==
    { n \in Nodes \ Dirs :
        /\ Below(dir, n, deep)
        /\ NamedPy(n)
        /\ Between(dir, n) \cap missing = {} }

\* Those of them that the expansion of dir can reach: every entry from dir
\* down to the file is readable and has a name glob's '*' lists.
ReachablePyFilesBelow(dir, deep) ==
    { n \in PyFilesBelow(dir, deep) :
        \A m \in Between(dir, n) :
            m \notin unreadable /\ IsVisible(m[Len(m)]) }

\* C8: after any sequence of add() calls, found_files holds no path string
\* twice.
C8_NoDuplicatePaths ==
    \A i, j \in 1..Len(found_files) :
        i # j => found_files[i] # found_files[j]

\* C8's case: './a.py' was supplied when 'a.py' had been found already.
C8_Witness ==
    /\ entries = 2
    /\ fname = <<".", "/">> \o A_PY
    /\ raised = ""
    /\ found_files = <<A_PY>>

\* C9: every path in found_files ends with '.py', and an existing readable
\* file supplied at top level whose name does not end with '.py' is left
\* out without an error.
C9_OnlyPyFiles ==
    /\ \A i \in 1..Len(found_files) :
         endswith(found_files[i], <<".", "p", "y">>)
    /\ LET f == StripDotSlash(fname) IN
       (/\ entries > 0
        /\ exists(f) /\ access(f) /\ ~isdir(f)
        /\ ~endswith(f, <<".", "p", "y">>))
       => /\ raised = ""
          /\ \A i \in 1..Len(found_files) : found_files[i] # f

\* C9's case: 'b.txt' was supplied after a '.py' file was found.
C9_Witness ==
    /\ entries = 2
    /\ fname = B_TXT
    /\ raised = ""
    /\ apc = "loop"
    /\ Len(found_files) = 1

\* C10, as claimed: add() on a supplied directory adds exactly the '.py'
\* files that are its immediate children when recurse is false, and every
\* '.py' file at every depth below it when recurse is true.
C10_AllPyFilesBelow ==
    [][(Supplied /\ raised' = "" /\ isdir(StripDotSlash(fname')))
        => NodesOf(found_files')
            = NodesOf(found_files)
                \cup PyFilesBelow(Components(StripDotSlash(fname')),
                                  recurse)]_vars

\* C10, amended: add() on a supplied directory adds exactly the '.py' files
\* among its immediate children that exist, are readable and have a name
\* not starting with '.', when recurse is false; when recurse is true it
\* adds every such file at every depth that is reached through readable
\* directories with names not starting with '.'.
C10_ReachablePyFilesBelow ==
    [][(Supplied /\ raised' = "" /\ isdir(StripDotSlash(fname')))
        => NodesOf(found_files')
            = NodesOf(found_files)
                \cup ReachablePyFilesBelow(
                        Components(StripDotSlash(fname')), recurse)]_vars

\* C10's case: '.' was supplied without recurse in a tree without faults;
\* a.py is found, and neither .h.py nor d/c.py nor d/e/f.py is.
C10_Witness ==
    /\ adds = 1
    /\ entries = 1
    /\ fname = <<".">>
    /\ ~recurse
    /\ raised = ""
    /\ unreadable = {}
    /\ missing = {}
    /\ found_files = <<A_PY>>

C12_GlobbedFaultRaises ==
    [][(/\ Supplied
        /\ exists(StripDotSlash(fname'))
        /\ access(StripDotSlash(fname'))
        /\ isdir(StripDotSlash(fname'))
        /\ \E c \in Children(Components(StripDotSlash(fname'))) :
              /\ IsVisible(c[Len(c)])
              /\ c \in missing \cup unreadable)
        => raised' # ""]_vars

\* The path an entry is stored under: its leading './' dropped, unless the
\* entry is './' itself.
WithoutDotSlash(name) ==
    IF name = <<".", "/">> THEN name
    ELSE IF Len(name) >= 2 /\ name[1] = "." /\ name[2] = "/"
        THEN [i \in 1..(Len(name) - 2) |-> name[i + 2]]
    ELSE name

\* How many times a path is in a list.
Occurrences(found, path) ==
    Cardinality({ i \in 1..Len(found) : found[i] = path })

\* C20: add() strips a leading './' from an entry exactly when the entry
\* starts with './' and is not './' itself, at top level and for entries
\* found by expansion alike: a file supplied as './a.py' or as 'a.py' is
\* stored once, under 'a.py', and the entry './' is kept as the current
\* directory and expanded, its files being stored without './'.
C20_LeadingDotSlash ==
    [][Supplied =>
        LET f == WithoutDotSlash(fname') IN
        /\ (raised' = "" /\ ~isdir(f) /\ endswith(f, <<".", "p", "y">>))
            => /\ Occurrences(found_files', f) = 1
               /\ f # fname' => Occurrences(found_files', fname') = 0
        /\ fname' \in { <<".", "/">>, <<".">> }
            => /\ raised' = ""
               /\ NodesOf(found_files')
                    = NodesOf(found_files)
                        \cup ReachablePyFilesBelow(<<>>, recurse)
               /\ \A i \in 1..Len(found_files') :
                    ~startswith(found_files'[i], <<".", "/">>)]_vars

\* C20's case: './' was supplied with recurse in a tree without faults; the
\* three files below it are stored without './'.
C20_Witness ==
    /\ entries = 1
    /\ fname = <<".", "/">>
    /\ recurse
    /\ ~reversed
    /\ unreadable = {}
    /\ missing = {}
    /\ raised = ""
    /\ found_files = << A_PY,
                        D \o <<"/">> \o C_PY,
                        D \o <<"/">> \o E \o <<"/">> \o F_PY >>

\* ------------------------------------- claims on the classifier's locals

\* C17, as claimed: the stored quote kind is empty whenever the
\* inside-docstring flag is false.
C17_QuoteKindEmptyOutside == ~docstring => docstring_char = ""

\* C17, amended: the stored quote kind is empty at the start of a pass and
\* changes only when a line enters a docstring, to the quote character of
\* that opener; so it is a quote character whenever the flag is true, and a
\* closing line clears the flag and keeps the quote kind.
C17_QuoteKindSetByOpener ==
    /\ []((pc = "loop" /\ idx = 0) => docstring_char = "")
    /\ [](docstring => docstring_char \in {DQ, SQ})
    /\ [][Consumed =>
            docstring_char' = IF ~docstring /\ docstring'
                                 THEN strip(flines[idx'])[1]
                                 ELSE docstring_char]_vars

\* C17's case: a docstring was opened and closed; the flag is false and the
\* quote kind is still the opener's.
C17_Witness ==
    /\ idx = 2
    /\ flines[1] = DQ3
    /\ flines[2] = <<"a", DQ, DQ, DQ>>
    /\ ~docstring
    /\ docstring_char = DQ

\* C18: outside a docstring, a trimmed line that is exactly one of the two
\* delimiters adds one to the docstring counter and enters the docstring
\* state with that delimiter's quote kind; and the docstring state is
\* entered only by a line that starts with a delimiter.
C18_BareDelimiterOpens ==
    /\ [][(Consumed /\ ~docstring /\ strip(flines[idx']) \in {DQ3, SQ3})
            => /\ nbr_docstrings' = nbr_docstrings + 1
               /\ docstring'
               /\ docstring_char' = strip(flines[idx'])[1]]_vars
    /\ [][(Consumed /\ ~docstring /\ docstring')
            => \/ startswith(strip(flines[idx']), DQ3)
               \/ startswith(strip(flines[idx']), SQ3)]_vars

\* C18's case: a bare double-quote delimiter with whitespace around it
\* opened a docstring.
C18_Witness ==
    /\ idx = 1
    /\ flines[1] = <<" ", DQ, DQ, DQ, " ">>
    /\ docstring
    /\ docstring_char = DQ
    /\ nbr_docstrings = 1

\* C19: a docstring is exited only by a line ending with the delimiter of
\* the kind that opened it; a line ending with the other delimiter leaves
\* the classifier inside the docstring.
C19_ClosedByMatchingDelimiter ==
    /\ [][(Consumed /\ docstring /\ ~docstring')
            => endswith(strip(flines[idx']), Delimiter(docstring_char))]_vars
    /\ [][(Consumed /\ docstring
            /\ \/ docstring_char = DQ /\ endswith(strip(flines[idx']), SQ3)
               \/ docstring_char = SQ /\ endswith(strip(flines[idx']), DQ3))
            => docstring']_vars

\* C19's case: inside a docstring opened with three double quotes, a line
\* ending with three single quotes was consumed and the classifier is
\* still inside.
C19_Witness ==
    /\ idx = 2
    /\ flines[1] = DQ3
    /\ flines[2] = <<"a", SQ, SQ, SQ>>
    /\ docstring
    /\ docstring_char = DQ

\* ------------------------------------------------- claims on the aggregate

\* The sum of one counter, named by field, over a list of records.
RECURSIVE SumOver(_, _)
SumOver(recs, field) ==
    IF recs = <<>> THEN 0 ELSE Head(recs)[field] + SumOver(Tail(recs), field)

\* A count() call has just ended (an action predicate).
Counted == last' = "count" /\ calls' = calls + 1

\* C13: after any sequence of add() and count() calls, each of the four
\* totals is the sum of its counter over the records in counted.
C13_TotalsAreSums ==
    /\ total_loc = SumOver(counted, "nbr_loc")
    /\ total_docstrings = SumOver(counted, "nbr_docstrings")
    /\ total_comments = SumOver(counted, "nbr_comments")
    /\ total_empty = SumOver(counted, "nbr_empty")

\* C14: after count() returns, counted holds exactly one record per path
\* of found_files, in the order of found_files, also when count() is
\* called again or after a further add().
C14_OneRecordPerFoundFile ==
    (last = "count" /\ failed = "")
        => /\ Len(counted) = Len(found_files)
           /\ \A i \in 1..Len(counted) : counted[i].fname = found_files[i]

\* C15: if reading a file of found_files fails during count(), the failure
\* reaches the caller and the four totals keep the values they had before
\* the call.
C15_NoPartialTotals ==
    [][Counted =>
        /\ failed' # ""
            <=> \E i \in 1..Len(found_files) :
                    \/ Components(found_files[i]) \in missing
                    \/ Components(found_files[i]) \in unreadable
        /\ failed' # ""
            => UNCHANGED <<total_loc, total_docstrings, total_comments,
                           total_empty>>]_vars

\* C15's case: a count() failed after a.py was read and d/c.py was gone,
\* and the totals are those of the count() before it.
C15_Witness ==
    /\ last = "count"
    /\ failed # ""
    /\ found_files = << A_PY, D \o <<"/">> \o C_PY >>
    /\ missing = { <<D, C_PY>> }
    /\ Len(counted) = 3
    /\ total_loc = SumOver(SubSeq(counted, 1, 2), "nbr_loc")
    /\ total_loc > 0

\* ------------------------------------------------------- claims on main()

\* A printed line is a decimal integer, and its value.
IsDecimal(s) ==
    /\ s # <<>>
    /\ \A i \in 1..Len(s) : \E d \in 0..9 : DigitChars[d + 1] = s[i]

RECURSIVE ValueOf(_)
ValueOf(s) ==
    IF s = <<>> THEN 0
    ELSE 10 * ValueOf(SubSeq(s, 1, Len(s) - 1))
            + (CHOOSE d \in 0..9 : DigitChars[d + 1] = s[Len(s)])

\* main() has ended without an error and was given neither -v nor -f.
PlainRunEnded ==
    /\ mpc = "exited"
    /\ raised = ""
    /\ failed = ""
    /\ ~options.verbose
    /\ ~options.files

\* main() printed one line, the total of the code lines of the files found.
PrintedTotal ==
    /\ Len(stdout) = 1
    /\ IsDecimal(stdout[1])
    /\ ValueOf(stdout[1]) = total_loc
    /\ total_loc = SumOver(counted, "nbr_loc")

\* C16, as claimed: given neither -v nor -f, a main() whose collection
\* succeeds prints exactly one line, the integer total of code lines, also
\* when no '.py' file was collected (total 0).
C16_AlwaysOneLine == PlainRunEnded => PrintedTotal

\* C16, amended: given neither -v nor -f, a main() whose collection and
\* count succeed prints exactly one line, the integer total of code lines,
\* when at least one '.py' file was collected, and prints nothing when none
\* was.
C16_OneLineUnlessNothingCounted ==
    PlainRunEnded =>
        IF found_files = <<>> THEN stdout = <<>> ELSE PrintedTotal

\* C16's case: main() counted three files and printed a total of two
\* digits.
C16_Witness ==
    /\ PlainRunEnded
    /\ Len(found_files) = 3
    /\ Len(stdout) = 1
    /\ Len(stdout[1]) = 2
    /\ total_loc >= 10

====
